---- MODULE Spec2Model ----
(***************************************************************************)
(* Request authentication and token lifecycle of ParaClient                *)
(* (paraclient/paraclient.py): per call, fail on a blank access key, send  *)
(* anonymously, sign with the secret key, or attach the bearer token after *)
(* a refresh attempt.                                                      *)
(*                                                                         *)
(* Python values are modelled as follows.  A string attribute is a string, *)
(* None being NONE; an integer attribute is an integer, None being NoneT.  *)
(* The three token attributes have class-level defaults (None) and may or  *)
(* may not exist on the instance: attrs is the set of those present in the *)
(* instance dictionary.  "del self.x" raises AttributeError when x is not  *)
(* in attrs, and otherwise uncovers the class default.                     *)
(* An operation that raises leaves the state as modified up to the raise. *)
(*                                                                         *)
(* A str whose characters matter (a URL, a query string, the type and id   *)
(* of a ParaObject) is a sequence of one-character strings.  The query     *)
(* canonicalisation of AWSAuth (paraclient/auth.py) and                    *)
(* ParaObject.getObjectURI (paraclient/paraobject.py) are pure functions   *)
(* of such strings; each has a specification of its own, AuthSpec and      *)
(* UriSpec, that draws its input in the initial state and applies it.      *)
(* Spec is the client with its token and key operations, PersistSpec the   *)
(* client with its persistence operations, ConcSpec two threads calling    *)
(* the client at once, each call split where it touches the token.         *)
(***************************************************************************)
EXTENDS Integers, Sequences, FiniteSets, TLC

VARIABLES accessKey, secretKey, tokenKey, tokenKeyExpires, tokenKeyNextRefresh,
          attrs, now, lastOp, req, obj, calls

vars == <<accessKey, secretKey, tokenKey, tokenKeyExpires, tokenKeyNextRefresh,
          attrs, now, lastOp, req, obj, calls>>

\* ---------------------------------------------------------------- bounds
\* the clock runs from 0 to MaxTime (milliseconds, abstracted)
MaxTime == 3
\* nesting of invokeSignedRequest -> refreshToken -> invokeGet -> ... after
\* which the interpreter raises RecursionError
MaxDepth == 3
\* number of key=value parameters in the query of a request given to AWSAuth
MaxParams == 3
\* length of the type and of the id of a ParaObject
MaxTextLen == 2

\* ---------------------------------------------------------- Python values
NONE == "<None>"
NoneT == -1
JWT_PATH == "/jwt_auth"
DEFAULT_PATH == "/v1/"

\* truthiness of a str-or-None value and of an int-or-None value
TruthyS(s) == s # NONE /\ s # ""
TruthyT(n) == n # NoneT /\ n # 0

TokenAttrs == {"tokenKey", "tokenKeyExpires", "tokenKeyNextRefresh"}

\* the value an attribute reads as once the instance attribute is deleted
ClassDefault(name) == IF name = "tokenKey" THEN NONE ELSE NoneT

\* self.<name> = v
SetAttr(self, name, v) == [self EXCEPT !.attrs = @ \cup {name}, ![name] = v]

\* del self.<name>
DelAttr(self, name) ==
    IF name \in self.attrs
    THEN [exc |-> "none",
          self |-> [self EXCEPT !.attrs = @ \ {name}, ![name] = ClassDefault(name)]]
    ELSE [exc |-> "AttributeError", self |-> self]

\* ------------------------------------------------------------------ strings
\* the str a sequence of characters spells
RECURSIVE Str(_)
Str(s) == IF s = <<>> THEN "" ELSE Head(s) \o Str(Tail(s))

\* the characters of the str arguments the client is called with
Chars(s) ==
    CASE s = "my dog" -> <<"m", "y", " ", "d", "o", "g">>
      [] s = "1+2" -> <<"1", "+", "2">>
      [] s = "ptoken" -> <<"p", "t", "o", "k", "e", "n">>
      [] OTHER -> <<>>

\* a str-or-None value whose characters matter: None is NoneS
NoneS == <<NONE>>
TruthySeq(s) == s # NoneS /\ s # <<>>

\* s.find(c) + 1
IndexOf(s, c) ==
    IF \E i \in 1..Len(s) : s[i] = c
    THEN CHOOSE i \in 1..Len(s) : s[i] = c /\ \A j \in 1..(i - 1) : s[j] # c
    ELSE 0

\* s.split(sep, 1)
SplitOnce(s, sep) ==
    IF IndexOf(s, sep) = 0 THEN <<s>>
    ELSE <<SubSeq(s, 1, IndexOf(s, sep) - 1), SubSeq(s, IndexOf(s, sep) + 1, Len(s))>>

\* s.split(sep)
RECURSIVE Split(_, _)
Split(s, sep) ==
    IF IndexOf(s, sep) = 0 THEN <<s>>
    ELSE <<SubSeq(s, 1, IndexOf(s, sep) - 1)>>
           \o Split(SubSeq(s, IndexOf(s, sep) + 1, Len(s)), sep)

\* s.replace(c, by), c one character
RECURSIVE Replace(_, _, _)
Replace(s, c, by) ==
    IF s = <<>> THEN <<>>
    ELSE (IF Head(s) = c THEN by ELSE <<Head(s)>>) \o Replace(Tail(s), c, by)

\* the characters urllib.parse.quote never escapes
Unreserved ==
    {"a", "b", "c", "d", "e", "f", "g", "h", "i", "j", "k", "l", "m", "n", "o", "p",
     "q", "r", "s", "t", "u", "v", "w", "x", "y", "z",
     "A", "B", "C", "D", "E", "F", "G", "H", "I", "J", "K", "L", "M", "N", "O", "P",
     "Q", "R", "S", "T", "U", "V", "W", "X", "Y", "Z",
     "0", "1", "2", "3", "4", "5", "6", "7", "8", "9", "_", ".", "-", "~"}

\* "%XX" of an ASCII character that is escaped
PercentCode(c) ==
    CASE c = " " -> <<"%", "2", "0">>
      [] c = "#" -> <<"%", "2", "3">>
      [] c = "%" -> <<"%", "2", "5">>
      [] c = "&" -> <<"%", "2", "6">>
      [] c = "+" -> <<"%", "2", "B">>
      [] c = "/" -> <<"%", "2", "F">>
      [] c = ":" -> <<"%", "3", "A">>
      [] c = "=" -> <<"%", "3", "D">>
      [] c = "?" -> <<"%", "3", "F">>

\* urllib.parse.quote(s, safe)
RECURSIVE Quote(_, _)
Quote(s, safe) ==
    IF s = <<>> THEN <<>>
    ELSE (IF Head(s) \in Unreserved \cup safe THEN <<Head(s)>> ELSE PercentCode(Head(s)))
           \o Quote(Tail(s), safe)

\* urllib.parse.quote_plus(s): a space is kept by quote and then made "+"
QuotePlus(s) ==
    IF \A i \in 1..Len(s) : s[i] # " " THEN Quote(s, {})
    ELSE Replace(Quote(s, {" "}), " ", <<"+">>)

\* mutant: the "+" quote_plus makes of a space is left in place
UrlencKeepingPlus(s) == QuotePlus(s)

\* urlenc(string): quote_plus(string).replace("+", "%20")
Urlenc(s) == Replace(QuotePlus(s), "+", <<"%", "2", "0">>)

\* ------------------------------------------------------------- ParaObject
\* a ParaObject, of which type and id matter
ParaObject(type_, id_) == [type |-> type_, id |-> id_]

\* a ParaObject and what getObjectURI made of it
Object(pc, o, r) ==
    [pc |-> pc, type |-> o.type, id |-> o.id, uri |-> r.uri, exc |-> r.exc]

NoObject == Object("none", ParaObject(<<>>, NoneS), [uri |-> <<>>, exc |-> "none"])

\* getObjectURI(): [exc, uri]; quote_plus(None) raises TypeError
GetObjectURI(o) ==
    IF o.type = NoneS THEN [exc |-> "TypeError", uri |-> <<>>]
    ELSE IF TruthySeq(o.id)
    THEN [exc |-> "none", uri |-> <<"/">> \o Urlenc(o.type) \o <<"/">> \o Urlenc(o.id)]
    ELSE [exc |-> "none", uri |-> <<"/">> \o Urlenc(o.type)]

\* ---------------------------------------------------------------- AWSAuth
\* urlparse(url).query of a URL without fragment
UrlQuery(url) == IF Len(SplitOnce(url, "?")) = 2 THEN SplitOnce(url, "?")[2] ELSE <<>>

\* quote_plus(value).replace("+", "%20") of line 47
QuoteValue(value) == Replace(QuotePlus(value), "+", <<"%", "2", "0">>)

\* the locals of __call__ before the loop: query (its keys),
\* multi_valued_params and querystring; exc is the exception raised, if any
CanonStart ==
    [query |-> {}, multi_valued_params |-> FALSE, querystring |-> <<>>, exc |-> "none"]

\* querystring with key=value appended
AppendPair(querystring, key, value) ==
    (IF querystring # <<>> THEN querystring \o <<"&">> ELSE querystring)
      \o key \o <<"=">> \o QuoteValue(value)

\* mutant: a key that is already in query is appended again
CanonPairKeepingAll(st, key, value) ==
    IF ~st.multi_valued_params /\ key \in st.query
    THEN [st EXCEPT !.multi_valued_params = TRUE,
                    !.querystring = AppendPair(@, key, value)]
    ELSE IF key # <<>>
    THEN [st EXCEPT !.query = @ \cup {key}, !.querystring = AppendPair(@, key, value)]
    ELSE st

\* lines 41-47: one key, value of the loop
CanonPair(st, key, value) ==
    IF ~st.multi_valued_params /\ key \in st.query
    THEN [st EXCEPT !.multi_valued_params = TRUE]
    ELSE IF key # <<>> /\ key \notin st.query
    THEN [st EXCEPT !.query = @ \cup {key}, !.querystring = AppendPair(@, key, value)]
    ELSE st

\* lines 36-47: one param of the loop; key_val[1] raises IndexError when the
\* param has no "="
CanonStep(st, param) ==
    IF st.exc # "none" \/ param = <<>> THEN st
    ELSE IF Len(SplitOnce(param, "=")) < 2 THEN [st EXCEPT !.exc = "IndexError"]
    ELSE CanonPair(st, SplitOnce(param, "=")[1], SplitOnce(param, "=")[2])

RECURSIVE CanonLoop(_, _)
CanonLoop(paramz, st) ==
    IF paramz = <<>> THEN st ELSE CanonLoop(Tail(paramz), CanonStep(st, Head(paramz)))

\* lines 30-47 on the query string of a URL
Canonical(url) == CanonLoop(Split(UrlQuery(url), "&"), CanonStart)

\* mutant: "+" is rewritten in the URL of the request whether or not a key
\* collided
SentUrlAlwaysRewritten(url, multi_valued_params) == Replace(url, "+", <<"%", "2", "0">>)

\* mutant: "+" is never rewritten in the URL of the request
SentUrlNeverRewritten(url, multi_valued_params) == url

\* r.url as __call__ leaves it
SentUrl(url, multi_valued_params) ==
    IF multi_valued_params THEN url ELSE Replace(url, "+", <<"%", "2", "0">>)

\* mutant: the signer is called on the request itself when a key collided
SignedUrlOfOriginal(url, multi_valued_params, querystring) ==
    IF multi_valued_params THEN url ELSE Replace(url, "+", <<"%", "2", "0">>)

\* the URL of the request the wrapped signer is called with: newr or r
SignedUrl(url, multi_valued_params, querystring) ==
    IF multi_valued_params THEN Split(url, "?")[1] \o <<"?">> \o querystring
    ELSE Replace(url, "+", <<"%", "2", "0">>)

\* a request and what AWSAuth made of it: the URL it was prepared with, the
\* URL it has now, the URL the signature headers it carries were computed
\* over, and the locals of __call__ at its end
Request(pc, prepared, url, signedUrl, c) ==
    [pc |-> pc, prepared |-> prepared, url |-> url, signedUrl |-> signedUrl,
     multi_valued_params |-> c.multi_valued_params, querystring |-> c.querystring,
     exc |-> c.exc]

NoRequest == Request("none", <<>>, <<>>, <<>>, CanonStart)

\* AWSAuth.__call__(r), c being what the loop left behind
AfterLoop(prepared, c) ==
    IF c.exc # "none" THEN Request("signed", prepared, prepared, <<>>, c)
    ELSE Request("signed", prepared, SentUrl(prepared, c.multi_valued_params),
                 SignedUrl(prepared, c.multi_valued_params, c.querystring), c)

AWSAuthCall(prepared) == AfterLoop(prepared, Canonical(prepared))

\* ------------------------------------------------------- transport answers
\* What requests.request gives back: a Response (status code and body), or a
\* RequestException, after which invokeSignedRequest holds response = None.
\* The body is one of a few shapes; kind names the shape:
\*   jwt        {"user": {...}, "jwt": {"access_token", "expires", "refresh"}}
\*   emptyjson  {}
\*   nullfields {"user": null, "jwt": null}
\*   errjson    {"code": 401, "message": "..."}      (code a number)
\*   errjsonstr {"code": "401", "message": "..."}    (code a string)
\*   text       a non-empty body that is not JSON
\*   empty      no body
\*   keys       {"accessKey": "...", "secretKey": "..."}
\*   list       [{"id": "...", "type": "...", "name": "..."}]
\*   items      {"items": [{...}], "totalHits": 1}
Resp(code, kind) ==
    [code |-> code, kind |-> kind, access_token |-> NONE, expires |-> NoneT,
     refresh |-> NoneT, secretKey |-> NONE]

JwtResp(code, tok, exp, refr) ==
    [code |-> code, kind |-> "jwt", access_token |-> tok, expires |-> exp,
     refresh |-> refr, secretKey |-> NONE]

KeysResp(code, secret) ==
    [code |-> code, kind |-> "keys", access_token |-> NONE, expires |-> NoneT,
     refresh |-> NoneT, secretKey |-> secret]

\* response = None
NoResponse == Resp(0, "None")

Responses ==
    {NoResponse,
     JwtResp(200, "srvA", 3, 1), JwtResp(200, "srvB", 4, 3),
     Resp(200, "emptyjson"), Resp(200, "nullfields"), Resp(200, "errjson"),
     Resp(200, "text"), Resp(200, "empty"),
     KeysResp(200, "secret2"), Resp(200, "list"), Resp(200, "items"),
     Resp(204, "empty"),
     Resp(300, "errjson"), Resp(300, "errjsonstr"),
     Resp(401, "errjson")}

\* bool(res): a Response is truthy iff its status code is below 400
RespOk(res) == res # NoResponse /\ res.code < 400

\* ------------------------------------------------------------ result values
\* what an operation leaves behind: the client, the events, the Response it
\* returns (ret; NoResponse when it returns no Response), any other value it
\* returns (val), and the exception it raises (exc)
Result(self, trace, ret, val) ==
    [self |-> self, trace |-> trace, ret |-> ret, val |-> val, exc |-> "none"]
Raise(self, trace, exc) ==
    [self |-> self, trace |-> trace, ret |-> NoResponse, val |-> "None", exc |-> exc]

\* events of one operation, in order: refreshToken entered, request handed to
\* the transport
RefreshEvent ==
    [ev |-> "refreshToken", method |-> "", path |-> "", scheme |-> "", cred |-> "",
     signed |-> FALSE, res |-> NoResponse]
\* scheme and cred are the Authorization header, res the transport's answer
SendEvent(m, p, scheme, cred, signed, res) ==
    [ev |-> "send", method |-> m, path |-> p, scheme |-> scheme, cred |-> cred,
     signed |-> signed, res |-> res]

Sends(trace) == SelectSeq(trace, LAMBDA e : e.ev = "send")
NumSends(trace) == Len(Sends(trace))

\* the answer the transport gives to the i-th request of an operation
OracleAt(oracle, i) == IF i \in DOMAIN oracle THEN oracle[i] ELSE NoResponse

\* ------------------------------------------------------------- getEntity
\* keys of the JSON object a body parses to
JsonKeys(kind) ==
    CASE kind \in {"jwt", "nullfields"} -> {"user", "jwt"}
      [] kind \in {"errjson", "errjsonstr"} -> {"code", "message"}
      [] kind = "keys" -> {"accessKey", "secretKey"}
      [] kind = "items" -> {"items", "totalHits"}
      [] OTHER -> {}

\* getEntity(res) with returnRawJSON = True: [exc, type, res] where type is the
\* Python type of the value returned ("None", "dict", "list", "str") and res
\* the Response it was read from
GetEntity(res) ==
    IF RespOk(res)
    THEN IF res.code \in {200, 201, 304}
         THEN IF res.kind \in {"text", "empty"}
              THEN [exc |-> "none", type |-> "str", res |-> res]
              ELSE IF res.kind = "list"
              THEN [exc |-> "none", type |-> "list", res |-> res]
              ELSE [exc |-> "none", type |-> "dict", res |-> res]
         ELSE \* code != 404 or code != 304 or code != 204 holds of every code
              IF res.kind \in {"text", "empty"}
              THEN [exc |-> "JSONDecodeError", type |-> "None", res |-> res]
              ELSE IF res.kind \in {"emptyjson", "list"}
              THEN [exc |-> "TypeError", type |-> "None", res |-> res]
              ELSE IF "code" \notin JsonKeys(res.kind)
              THEN [exc |-> "KeyError", type |-> "None", res |-> res]
              ELSE IF res.kind = "errjson"
              THEN [exc |-> "TypeError", type |-> "None", res |-> res]
              ELSE [exc |-> "none", type |-> "None", res |-> res]
    ELSE [exc |-> "none", type |-> "None", res |-> res]

\* result and result["user"] and result["jwt"]: "True", "False" or the
\* exception the expression raises
HasUserAndJwt(e) ==
    CASE e.type = "None" -> "False"
      [] e.type = "str" -> IF e.res.kind = "text" THEN "TypeError" ELSE "False"
      [] e.type = "list" -> "TypeError"
      [] OTHER ->
           IF e.res.kind = "emptyjson" THEN "False"
           ELSE IF "user" \notin JsonKeys(e.res.kind) THEN "KeyError"
           ELSE IF e.res.kind = "nullfields" THEN "False"
           ELSE "True"

\* ------------------------------------------------------------ token strings
\* The strings handed to setAccessToken, with what token.split(".") and
\* json.loads(base64.b64decode(parts[1] + "==")) make of each:
\*   parts   number of "."-separated parts
\*   decode  "ok", or the exception decoding parts[1] raises
\*   keys    the claims of the decoded payload
TokenInfo(parts, decode, keys, exp, refr) ==
    [parts |-> parts, decode |-> decode, keys |-> keys, exp |-> exp, refresh |-> refr]

TokenTable ==
    [t \in {"opaque", "h.%.s", "h.e30.s", "h.sub.s", "h.exp3.s", "h.exp3r1.s",
            "h.exp2r3.s", "h.exp3r2.s"} |->
       CASE t = "opaque" -> TokenInfo(1, "IndexError", {}, NoneT, NoneT)
         [] t = "h.%.s" -> TokenInfo(3, "JSONDecodeError", {}, NoneT, NoneT)
         [] t = "h.e30.s" -> TokenInfo(3, "ok", {}, NoneT, NoneT)
         [] t = "h.sub.s" -> TokenInfo(3, "ok", {"sub"}, NoneT, NoneT)
         [] t = "h.exp3.s" -> TokenInfo(3, "ok", {"exp"}, 3, NoneT)
         [] t = "h.exp3r1.s" -> TokenInfo(3, "ok", {"exp", "refresh"}, 3, 1)
         [] t = "h.exp2r3.s" -> TokenInfo(3, "ok", {"exp", "refresh"}, 2, 3)
         [] t = "h.exp3r2.s" -> TokenInfo(3, "ok", {"exp", "refresh"}, 3, 2)]

TokenStrings == DOMAIN TokenTable \cup {""}

\* ------------------------------------------------------ token state setters
\* getAccessToken()
GetAccessToken(self) == self.tokenKey

\* mutant: only the token value is deleted
ClearAccessTokenValueOnly(self) == DelAttr(self, "tokenKey")

\* clearAccessToken: three del statements, the first failing one ends it
ClearAccessToken(self) ==
    LET d1 == DelAttr(self, "tokenKey")
        d2 == DelAttr(d1.self, "tokenKeyExpires")
        d3 == DelAttr(d2.self, "tokenKeyNextRefresh")
    IN  IF d1.exc # "none" THEN d1
        ELSE IF d2.exc # "none" THEN d2
        ELSE d3

\* setAccessToken(token)
SetAccessToken(self, token) ==
    IF TruthyS(token)
    THEN LET info == TokenTable[token]
         IN  IF info.parts < 2 THEN [exc |-> "IndexError", self |-> self]
             ELSE IF info.decode # "ok" THEN [exc |-> info.decode, self |-> self]
             ELSE IF info.keys # {} /\ "exp" \in info.keys
             THEN [exc |-> "none",
                   self |-> SetAttr(SetAttr(SetAttr(self, "tokenKeyExpires", info.exp),
                                            "tokenKeyNextRefresh", info.refresh),
                                    "tokenKey", token)]
             ELSE LET d1 == DelAttr(self, "tokenKeyExpires")
                      d2 == DelAttr(d1.self, "tokenKeyNextRefresh")
                  IN  IF d1.exc # "none" THEN d1
                      ELSE IF d2.exc # "none" THEN d2
                      ELSE [exc |-> "none", self |-> SetAttr(d2.self, "tokenKey", token)]
    ELSE [exc |-> "none", self |-> SetAttr(self, "tokenKey", token)]

\* mutant: the new expiry and next-refresh are stored, the new token is not
StoreJwtWithoutKey(self, res) ==
    SetAttr(SetAttr(self, "tokenKeyExpires", res.expires),
            "tokenKeyNextRefresh", res.refresh)

\* the jwt_data assignments of signIn and refreshToken
StoreJwt(self, res) ==
    SetAttr(SetAttr(SetAttr(self, "tokenKey", res.access_token),
                    "tokenKeyExpires", res.expires),
            "tokenKeyNextRefresh", res.refresh)

\* ------------------------------------------------------------- dispatcher
\* getFullPath(resourcepath), for the resource paths the model uses
GetFullPath(resourcepath) ==
    IF TruthyS(resourcepath) /\ resourcepath \in {JWT_PATH, "/jwt_auth/x"}
    THEN resourcepath
    ELSE IF ~TruthyS(resourcepath) THEN DEFAULT_PATH
    ELSE IF resourcepath = "/_me" THEN DEFAULT_PATH \o "_me"
    ELSE DEFAULT_PATH \o resourcepath

\* mutant: the access key is checked only when no token is held
BlankAccessKeyUnlessToken(self) == ~TruthyS(self.accessKey) /\ ~TruthyS(self.tokenKey)

\* if not self.__accessKey
BlankAccessKey(self) == ~TruthyS(self.accessKey)

\* mutant: the token test of the anonymous branch is inverted
IsAnonymousInverted(self) == ~TruthyS(self.secretKey) /\ TruthyS(self.tokenKey)

\* not self.__secretKey and not self.__tokenKey
IsAnonymous(self) == ~TruthyS(self.secretKey) /\ ~TruthyS(self.tokenKey)

\* mutant: do_sign is not reset in the anonymous branch
DoSignNotReset(self) == ~TruthyS(self.tokenKey)

\* mutant: do_sign starts out True whether or not a token is held
DoSignDespiteToken(self) == ~(~TruthyS(self.secretKey) /\ ~TruthyS(self.tokenKey))

\* do_sign as it stands when the request is built
DoSign(self) == ~TruthyS(self.tokenKey) /\ ~IsAnonymous(self)

\* mutant: the refresh call is recognised by the path under the API prefix,
\* which getFullPath never gives to the JWT path
IsRefreshCallPrefixed(httpMethod, reqPath) ==
    httpMethod = "GET" /\ reqPath = DEFAULT_PATH \o "jwt_auth"

\* httpMethod == "GET" and reqPath == self.JWT_PATH
IsRefreshCall(httpMethod, reqPath) == httpMethod = "GET" /\ reqPath = JWT_PATH

\* mutant: a token with an expiry counts as not expired at any time
NotExpiredIgnoringTime(self, t) == TruthyT(self.tokenKeyExpires)

\* mutant: a token without an expiry counts as not expired
NotExpiredOrUnknown(self, t) ==
    self.tokenKeyExpires = NoneT \/ self.tokenKeyExpires > t

\* notexpired and canrefresh of refreshToken
NotExpired(self, t) == TruthyT(self.tokenKeyExpires) /\ self.tokenKeyExpires > t

\* mutant: the next-refresh time is compared without testing that it is set
CanRefreshWithoutPresence(self, t) ==
    \/ self.tokenKeyNextRefresh < t
    \/ self.tokenKeyNextRefresh > self.tokenKeyExpires

CanRefresh(self, t) ==
    /\ TruthyT(self.tokenKeyNextRefresh)
    /\ \/ self.tokenKeyNextRefresh < t
       \/ self.tokenKeyNextRefresh > self.tokenKeyExpires

\* canrefresh compares an int with None (TypeError) when the next-refresh
\* time is not in the past and there is no expiry
CanRefreshRaises(self, t) ==
    /\ TruthyT(self.tokenKeyNextRefresh)
    /\ ~(self.tokenKeyNextRefresh < t)
    /\ self.tokenKeyExpires = NoneT

\* mutant: a request the transport fails on is sent a second time
SendWithRetry(self, httpMethod, reqPath, scheme, cred, sign, trace, oracle) ==
    LET e1 == SendEvent(httpMethod, reqPath,
                        IF sign THEN "AWS4-HMAC-SHA256" ELSE scheme,
                        IF sign THEN self.accessKey ELSE cred, sign,
                        OracleAt(oracle, NumSends(trace) + 1))
        e2 == [e1 EXCEPT !.res = OracleAt(oracle, NumSends(trace) + 2)]
    IN  IF e1.res = NoResponse
        THEN Result(self, Append(Append(trace, e1), e2), e2.res,
                    IF e2.res = NoResponse THEN "None" ELSE "Response")
        ELSE Result(self, Append(trace, e1), e1.res, "Response")

\* requests.request(...): the request goes to the transport, signed by
\* AWSAuth when sign is set, and the transport's answer comes back
Send(self, httpMethod, reqPath, scheme, cred, sign, trace, oracle) ==
    LET res == OracleAt(oracle, NumSends(trace) + 1)
        e == IF sign
             THEN SendEvent(httpMethod, reqPath, "AWS4-HMAC-SHA256", self.accessKey,
                            TRUE, res)
             ELSE SendEvent(httpMethod, reqPath, scheme, cred, FALSE, res)
    IN  Result(self, Append(trace, e), res, IF res = NoResponse THEN "None" ELSE "Response")

\* The answer handling shared by refreshToken (lines 1158-1166) and signIn
\* (lines 1126-1137), r being what the dispatch left behind: on user and jwt
\* the token is stored (signIn: when rememberjwt) and okval is returned,
\* otherwise clearAccessToken is called and failval is returned.
AfterClear(r, c, failval) ==
    IF c.exc # "none" THEN Raise(c.self, r.trace, c.exc)
    ELSE Result(c.self, r.trace, NoResponse, failval)

StoreOrClear(r, e, ok, rememberjwt, okval, failval) ==
    IF ok = "True"
    THEN Result(IF rememberjwt THEN StoreJwt(r.self, e.res) ELSE r.self,
                r.trace, NoResponse, okval)
    ELSE IF ok = "False" THEN AfterClear(r, ClearAccessToken(r.self), failval)
    ELSE Raise(r.self, r.trace, ok)

ReadEntity(r, e, rememberjwt, okval, failval) ==
    IF e.exc # "none" THEN Raise(r.self, r.trace, e.exc)
    ELSE StoreOrClear(r, e, HasUserAndJwt(e), rememberjwt, okval, failval)

ReadJwtAnswer(r, rememberjwt, okval, failval) ==
    IF r.exc # "none" THEN r
    ELSE ReadEntity(r, GetEntity(r.ret), rememberjwt, okval, failval)

\* headers["Authorization"] = "Bearer " + self.__tokenKey and the request,
\* rt being what the refresh check left behind and sign the value of do_sign
AttachBearer(rt, httpMethod, reqPath, sign, oracle) ==
    IF rt.exc # "none" THEN rt
    ELSE IF rt.self.tokenKey = NONE THEN Raise(rt.self, rt.trace, "TypeError")
    ELSE Send(rt.self, httpMethod, reqPath, "Bearer", rt.self.tokenKey, sign,
              rt.trace, oracle)

RECURSIVE InvokeSignedRequest(_, _, _, _, _, _, _)
RECURSIVE RefreshToken(_, _, _, _, _)

\* refreshToken(), entered at time t
RefreshToken(self, trace, oracle, t, depth) ==
    IF CanRefreshRaises(self, t) THEN Raise(self, Append(trace, RefreshEvent), "TypeError")
    ELSE IF TruthyS(self.tokenKey) /\ NotExpired(self, t) /\ CanRefresh(self, t)
    THEN ReadJwtAnswer(InvokeSignedRequest(self, "GET", GetFullPath(JWT_PATH),
                                           Append(trace, RefreshEvent), oracle, t,
                                           depth + 1),
                       TRUE, "True", "False")
    ELSE Result(self, Append(trace, RefreshEvent), NoResponse, "False")

\* invokeSignedRequest(httpMethod, endpointURL, reqPath) with no headers given
InvokeSignedRequest(self, httpMethod, reqPath, trace, oracle, t, depth) ==
    IF depth > MaxDepth THEN Raise(self, trace, "RecursionError")
    ELSE IF BlankAccessKey(self) THEN Result(self, trace, NoResponse, "None")
    ELSE IF TruthyS(self.tokenKey)
    THEN AttachBearer(IF ~IsRefreshCall(httpMethod, reqPath)
                      THEN RefreshToken(self, trace, oracle, t, depth + 1)
                      ELSE Result(self, trace, NoResponse, "None"),
                      httpMethod, reqPath, DoSign(self), oracle)
    ELSE IF IsAnonymous(self)
    THEN Send(self, httpMethod, reqPath, "Anonymous", self.accessKey, DoSign(self),
              trace, oracle)
    ELSE Send(self, httpMethod, reqPath, "", "", DoSign(self), trace, oracle)

\* signIn(provider, providertoken, rememberjwt)
SignIn(self, provider, providertoken, rememberjwt, oracle, t) ==
    IF ~TruthyS(provider) \/ ~TruthyS(providertoken)
    THEN Result(self, <<>>, NoResponse, "None")
    ELSE ReadJwtAnswer(InvokeSignedRequest(self, "POST", GetFullPath(JWT_PATH), <<>>,
                                           oracle, t, 0),
                       rememberjwt, "user", "None")

\* mutant: the secret key is assigned whatever the answer holds under
\* "secretKey", None when it holds nothing
StoreSecretKeyAlways(self, e) ==
    IF e.type = "dict" THEN [self EXCEPT !.secretKey = e.res.secretKey] ELSE self

\* if keys and keys["secretKey"]: self.__secretKey = keys["secretKey"], for
\* keys on which the condition does not raise
StoreSecretKey(self, e) ==
    IF e.type = "dict" /\ "secretKey" \in JsonKeys(e.res.kind) /\ TruthyS(e.res.secretKey)
    THEN [self EXCEPT !.secretKey = e.res.secretKey]
    ELSE self

\* keys and keys["secretKey"]: the exception the condition raises, if any
SecretKeyTest(e) ==
    CASE e.type = "None" -> "none"
      [] e.type = "str" -> IF e.res.kind = "text" THEN "TypeError" ELSE "none"
      [] e.type = "list" -> "TypeError"
      [] OTHER -> IF e.res.kind = "emptyjson" \/ "secretKey" \in JsonKeys(e.res.kind)
                  THEN "none" ELSE "KeyError"

\* newKeys(), r being what invokePost("_newkeys") left behind
ReadKeys(r, e) ==
    IF e.exc # "none" THEN Raise(r.self, r.trace, e.exc)
    ELSE IF SecretKeyTest(e) # "none" THEN Raise(r.self, r.trace, SecretKeyTest(e))
    ELSE Result(StoreSecretKey(r.self, e), r.trace, NoResponse, e.type)

ReadKeysAnswer(r) == IF r.exc # "none" THEN r ELSE ReadKeys(r, GetEntity(r.ret))

NewKeys(self, oracle, t) ==
    ReadKeysAnswer(InvokeSignedRequest(self, "POST", GetFullPath("_newkeys"), <<>>,
                                       oracle, t, 0))

\* ------------------------------------------------------------- persistence
\* urlenc of a str argument
UrlencS(s) == Str(Urlenc(Chars(s)))

\* a list-or-None argument
NoneList == [none |-> TRUE, items |-> <<>>]
PyList(items) == [none |-> FALSE, items |-> items]
TruthyL(l) == ~l.none /\ l.items # <<>>
ListName(l) ==
    IF l.none THEN NONE
    ELSE IF l.items = <<>> THEN "[]"
    ELSE IF l.items[1] = NONE THEN "[None]"
    ELSE "[...]"

\* getEntity(res, False): obj.setFields(res.json()) gives a ParaObject, or
\* raises on a body that is not JSON or not a JSON object
GetEntityObj(res) ==
    IF RespOk(res) /\ res.code \in {200, 201, 304}
    THEN IF res.kind \in {"text", "empty"}
         THEN [exc |-> "JSONDecodeError", type |-> "None", res |-> res]
         ELSE IF res.kind = "list"
         THEN [exc |-> "ValueError", type |-> "None", res |-> res]
         ELSE [exc |-> "none", type |-> "ParaObject", res |-> res]
    ELSE GetEntity(res)

\* getItemsFromList(result): "[]", "list", or the exception setFields raises
\* on an element that is not a JSON object
GetItemsFromList(e) ==
    CASE e.type = "None" -> "[]"
      [] e.type = "str" -> IF e.res.kind = "text" THEN "ValueError" ELSE "[]"
      [] e.type = "list" -> "list"
      [] OTHER -> IF e.res.kind = "emptyjson" THEN "[]" ELSE "ValueError"

\* getItems(result) with at = "items" and no pager
GetItems(e) ==
    IF e.type = "dict" /\ "items" \in JsonKeys(e.res.kind) THEN "list" ELSE "[]"

\* what an operation returns of the answer r: the object of getEntity(r,
\* False), the objects of getItemsFromList(getEntity(r)), or those of
\* getItems(getEntity(r))
ReturnValue(r, e, val) ==
    IF e.exc # "none" THEN Raise(r.self, r.trace, e.exc)
    ELSE IF val = "ValueError" THEN Raise(r.self, r.trace, val)
    ELSE Result(r.self, r.trace, NoResponse, val)

ObjectOf(r) ==
    IF r.exc # "none" THEN r
    ELSE ReturnValue(r, GetEntityObj(r.ret), GetEntityObj(r.ret).type)

ItemsFromListOf(r) ==
    IF r.exc # "none" THEN r
    ELSE ReturnValue(r, GetEntity(r.ret), GetItemsFromList(GetEntity(r.ret)))

ItemsOf(r) ==
    IF r.exc # "none" THEN r
    ELSE ReturnValue(r, GetEntity(r.ret), GetItems(GetEntity(r.ret)))

\* mutant: only None counts as no id
NoIdNoneOnly(id_) == id_ = NONE

\* if not id_
NoId(id_) == ~TruthyS(id_)

\* read(type_, id_)
Read(self, type_, id_, oracle, t) ==
    IF NoId(id_) THEN Result(self, <<>>, NoResponse, "None")
    ELSE ObjectOf(InvokeSignedRequest(
                    self, "GET",
                    GetFullPath(IF TruthyS(type_)
                                THEN UrlencS(type_) \o "/" \o UrlencS(id_)
                                ELSE "_id/" \o UrlencS(id_)),
                    <<>>, oracle, t, 0))

\* createAll(objects)
CreateAll(self, objects, oracle, t) ==
    IF ~TruthyL(objects) \/ objects.items[1] = NONE
    THEN Result(self, <<>>, NoResponse, "[]")
    ELSE IF \E i \in DOMAIN objects.items : objects.items[i] = NONE
    THEN Raise(self, <<>>, "AttributeError")
    ELSE ItemsFromListOf(InvokeSignedRequest(self, "POST", GetFullPath("_batch"), <<>>,
                                             oracle, t, 0))

\* readAll(keys)
ReadAll(self, keys, oracle, t) ==
    IF ~TruthyL(keys) THEN Result(self, <<>>, NoResponse, "[]")
    ELSE ItemsFromListOf(InvokeSignedRequest(self, "GET", GetFullPath("_batch"), <<>>,
                                             oracle, t, 0))

\* updateAll(objects); obj.__dict__ raises AttributeError on None
UpdateAll(self, objects, oracle, t) ==
    IF ~TruthyL(objects) THEN Result(self, <<>>, NoResponse, "[]")
    ELSE IF \E i \in DOMAIN objects.items : objects.items[i] = NONE
    THEN Raise(self, <<>>, "AttributeError")
    ELSE ItemsFromListOf(InvokeSignedRequest(self, "PATCH", GetFullPath("_batch"), <<>>,
                                             oracle, t, 0))

\* list(type_) with no pager
List(self, type_, oracle, t) ==
    IF ~TruthyS(type_) THEN Result(self, <<>>, NoResponse, "[]")
    ELSE ItemsOf(InvokeSignedRequest(self, "GET", GetFullPath(UrlencS(type_)), <<>>,
                                     oracle, t, 0))

\* ------------------------------------------------------------------ state
Self ==
    [accessKey |-> accessKey, secretKey |-> secretKey, tokenKey |-> tokenKey,
     tokenKeyExpires |-> tokenKeyExpires, tokenKeyNextRefresh |-> tokenKeyNextRefresh,
     attrs |-> attrs]

\* the last operation: its name and arguments, the client before it, and
\* what it left behind
Op(name, httpMethod, reqPath, arg, r) ==
    [op |-> name, method |-> httpMethod, path |-> reqPath, arg |-> arg, pre |-> Self,
     trace |-> r.trace, ret |-> r.ret, val |-> r.val, exc |-> r.exc]

NoOp ==
    [op |-> "none", method |-> "", path |-> "", arg |-> "", pre |-> Self,
     trace |-> <<>>, ret |-> NoResponse, val |-> "None", exc |-> "none"]

Commit(self) ==
    /\ tokenKey' = self.tokenKey
    /\ tokenKeyExpires' = self.tokenKeyExpires
    /\ tokenKeyNextRefresh' = self.tokenKeyNextRefresh
    /\ attrs' = self.attrs
    /\ secretKey' = self.secretKey
    /\ accessKey' = self.accessKey
    /\ UNCHANGED <<now, req, obj, calls>>

\* an operation that talks to the transport, with its arguments
Call(name, httpMethod, resourcePath, provider, rememberjwt) ==
    [op |-> name, method |-> httpMethod, path |-> resourcePath, provider |-> provider,
     rememberjwt |-> rememberjwt]

\* a persistence operation, with its arguments
PersistCall(name, type_, id_, list) ==
    [op |-> name, type |-> type_, id |-> id_, list |-> list]

\* the call c made on client self at time t, the transport answering by oracle
Run(c, self, t, oracle) ==
    CASE c.op = "invokeSignedRequest" ->
           InvokeSignedRequest(self, c.method, GetFullPath(c.path), <<>>, oracle, t, 0)
      [] c.op = "refreshToken" -> RefreshToken(self, <<>>, oracle, t, 0)
      [] c.op = "signIn" -> SignIn(self, c.provider, "ptoken", c.rememberjwt, oracle, t)
      [] c.op = "newKeys" -> NewKeys(self, oracle, t)
      [] c.op = "read" -> Read(self, c.type, c.id, oracle, t)
      [] c.op = "createAll" -> CreateAll(self, c.list, oracle, t)
      [] c.op = "readAll" -> ReadAll(self, c.list, oracle, t)
      [] c.op = "updateAll" -> UpdateAll(self, c.list, oracle, t)
      [] c.op = "list" -> List(self, c.type, oracle, t)

\* The outcomes of a call over every answer the transport may give to the
\* requests it sends (at most two: the refresh call and the request)
Outcomes(c, self, t) ==
    LET r0 == Run(c, self, t, <<>>)
    IN  IF NumSends(r0.trace) = 0 THEN {r0}
        ELSE UNION { LET r1 == Run(c, self, t, <<a>>)
                     IN  IF NumSends(r1.trace) <= 1 THEN {r1}
                         ELSE {Run(c, self, t, <<a, b>>) : b \in Responses}
                     : a \in Responses }

AccessKeys == {"", "app"}
SecretKeys == {"", "secret"}
Methods == {"GET", "POST", "DELETE"}
ResourcePaths == {JWT_PATH, "_me"}
\* the arguments of the persistence operations
Types == {NONE, "", "my dog"}
Ids == {NONE, "", "1+2"}
ObjectLists == {NoneList, PyList(<<>>), PyList(<<NONE>>), PyList(<<"o1">>)}
KeyLists == {NoneList, PyList(<<>>), PyList(<<"1+2">>)}
PersistCalls ==
    {PersistCall("read", ty, id, NoneList) : ty \in {NONE, "my dog"}, id \in Ids}
      \cup {PersistCall("createAll", NONE, NONE, l) : l \in ObjectLists}
      \cup {PersistCall("readAll", NONE, NONE, l) : l \in KeyLists}
      \cup {PersistCall("updateAll", NONE, NONE, l) : l \in ObjectLists}
      \cup {PersistCall("list", ty, NONE, NoneList) : ty \in Types}
\* the key argument of a persistence operation, as lastOp records it
KeyArgument(c) ==
    CASE c.op = "read" -> c.id
      [] c.op = "list" -> c.type
      [] OTHER -> ListName(c.list)

\* The calls of invokeSignedRequest in flight on threads that share the
\* client: for each thread, where its call is (pc), the token attributes it
\* read in refreshToken (seen), the token its refresh call carried
\* (refreshCred), the answer to that call (res), whether it assigned the
\* answer's token to the client (stored), the Authorization header of the
\* request it was asked to send (scheme, cred), and what it raised (exc).
Threads == {"t1", "t2"}

Seen(self) ==
    [tokenKey |-> self.tokenKey, tokenKeyExpires |-> self.tokenKeyExpires,
     tokenKeyNextRefresh |-> self.tokenKeyNextRefresh]

NoSeen == [tokenKey |-> "<unread>", tokenKeyExpires |-> NoneT,
           tokenKeyNextRefresh |-> NoneT]

IdleCall ==
    [pc |-> "idle", seen |-> NoSeen, refreshCred |-> NONE, res |-> NoResponse,
     stored |-> FALSE, scheme |-> "", cred |-> "", exc |-> "none"]

NoCalls == [th \in Threads |-> IdleCall]

\* ParaClient(accessKey, secretKey)
Init ==
    /\ accessKey \in AccessKeys
    /\ secretKey \in SecretKeys
    /\ tokenKey = NONE
    /\ tokenKeyExpires = NoneT
    /\ tokenKeyNextRefresh = NoneT
    /\ attrs = {}
    /\ now = 0
    /\ lastOp = NoOp
    /\ req = NoRequest
    /\ obj = NoObject
    /\ calls = NoCalls

\* time passes between operations
Tick ==
    /\ now < MaxTime
    /\ now' = now + 1
    /\ UNCHANGED <<accessKey, secretKey, tokenKey, tokenKeyExpires,
                   tokenKeyNextRefresh, attrs, req, obj, calls>>
    /\ lastOp' = [NoOp EXCEPT !.pre = Self]

\* invokeGet / invokePost / invokeDelete (resourcePath)
Invoke ==
    \E m \in Methods, p \in ResourcePaths :
      \E r \in Outcomes(Call("invokeSignedRequest", m, p, "", FALSE), Self, now) :
        /\ Commit(r.self)
        /\ lastOp' = Op("invokeSignedRequest", m, GetFullPath(p), "", r)

\* refreshToken() called by the application
Refresh ==
    \E r \in Outcomes(Call("refreshToken", "", "", "", FALSE), Self, now) :
      /\ Commit(r.self)
      /\ lastOp' = Op("refreshToken", "", "", "", r)

\* setAccessToken(token)
SetToken ==
    \E token \in TokenStrings :
      LET s == SetAccessToken(Self, token)
      IN  /\ Commit(s.self)
          /\ lastOp' = Op("setAccessToken", "", "", token,
                          IF s.exc = "none" THEN Result(s.self, <<>>, NoResponse, "None")
                          ELSE Raise(s.self, <<>>, s.exc))

\* clearAccessToken() and signOut(), which only calls it
ClearToken ==
    \E name \in {"clearAccessToken", "signOut"} :
      LET s == ClearAccessToken(Self)
      IN  /\ Commit(s.self)
          /\ lastOp' = Op(name, "", "", "",
                          IF s.exc = "none" THEN Result(s.self, <<>>, NoResponse, "None")
                          ELSE Raise(s.self, <<>>, s.exc))

\* signIn(provider, providertoken, rememberjwt)
SignInStep ==
    \E provider \in {"", "google"}, rememberjwt \in BOOLEAN :
      \E r \in Outcomes(Call("signIn", "POST", JWT_PATH, provider, rememberjwt), Self, now) :
        /\ Commit(r.self)
        /\ lastOp' = Op("signIn", "POST", JWT_PATH,
                        IF rememberjwt THEN provider \o ":remember" ELSE provider, r)

\* newKeys()
NewKeysStep ==
    \E r \in Outcomes(Call("newKeys", "POST", "_newkeys", "", FALSE), Self, now) :
      /\ Commit(r.self)
      /\ lastOp' = Op("newKeys", "POST", GetFullPath("_newkeys"), "", r)

\* read / createAll / readAll / updateAll / list
Persist ==
    \E c \in PersistCalls :
      \E r \in Outcomes(c, Self, now) :
        /\ Commit(r.self)
        /\ lastOp' = Op(c.op, "", "", KeyArgument(c), r)

Next ==
    Tick \/ Invoke \/ Refresh \/ SetToken \/ ClearToken \/ SignInStep \/ NewKeysStep

Spec == Init /\ [][Next]_vars

\* -------------------------------------------- the persistence operations
\* The persistence operations reach the client's state only through
\* invokeSignedRequest; they are specified with the clock and with
\* setAccessToken, which gives them every kind of token to dispatch with.
PersistNext == Tick \/ SetToken \/ Persist

PersistSpec == Init /\ [][PersistNext]_vars

\* ------------------------------------------------------ AWSAuth on its own
\* sep.join(parts)
RECURSIVE Join(_, _)
Join(parts, sep) ==
    IF parts = <<>> THEN <<>>
    ELSE IF Len(parts) = 1 THEN parts[1]
    ELSE parts[1] \o sep \o Join(Tail(parts), sep)

\* the parameters of a request: key=value, and two malformed ones (a key
\* without "=", an empty key)
ParamKeys == {<<"a">>, <<"b">>}
ParamValues == {<<"1">>, <<"2">>, <<"3">>, <<"+">>}
Params ==
    {k \o <<"=">> \o v : k \in ParamKeys, v \in ParamValues}
      \cup {<<"a">>, <<"=", "1">>}
Queries == UNION {[1..n -> Params] : n \in 0..MaxParams}
BaseUrl == <<"h", "/", "p">>

\* the URL requests prepares of the endpoint, the path and the parameters
PreparedUrl(params) ==
    IF params = <<>> THEN BaseUrl ELSE BaseUrl \o <<"?">> \o Join(params, <<"&">>)

\* a client with both keys and no token has built a request that is to be
\* signed
AuthInit ==
    /\ accessKey = "app"
    /\ secretKey = "secret"
    /\ tokenKey = NONE
    /\ tokenKeyExpires = NoneT
    /\ tokenKeyNextRefresh = NoneT
    /\ attrs = {}
    /\ now = 0
    /\ lastOp = NoOp
    /\ obj = NoObject
    /\ calls = NoCalls
    /\ req \in {Request("prepared", PreparedUrl(q), PreparedUrl(q), <<>>, CanonStart) :
                  q \in Queries}

\* requests calls AWSAuth.__call__(r) on the prepared request
AuthCall ==
    /\ req.pc = "prepared"
    /\ req' = AWSAuthCall(req.url)
    /\ UNCHANGED <<accessKey, secretKey, tokenKey, tokenKeyExpires,
                   tokenKeyNextRefresh, attrs, now, lastOp, obj, calls>>

AuthNext == AuthCall

AuthSpec == AuthInit /\ [][AuthNext]_vars

\* ------------------------------------------- ParaObject.getObjectURI on its own
TextChars == {"d", "2", " ", "+", "%"}
Texts == UNION {[1..n -> TextChars] : n \in 0..MaxTextLen}

\* ParaObject(id_, type_), either of them possibly None
UriInit ==
    /\ accessKey = "app"
    /\ secretKey = "secret"
    /\ tokenKey = NONE
    /\ tokenKeyExpires = NoneT
    /\ tokenKeyNextRefresh = NoneT
    /\ attrs = {}
    /\ now = 0
    /\ lastOp = NoOp
    /\ req = NoRequest
    /\ calls = NoCalls
    /\ obj \in {Object("new", ParaObject(ty, id), [uri |-> <<>>, exc |-> "none"]) :
                  ty \in Texts \cup {NoneS}, id \in Texts \cup {NoneS}}

\* getObjectURI()
GetUri ==
    /\ obj.pc = "new"
    /\ obj' = Object("called", ParaObject(obj.type, obj.id),
                     GetObjectURI(ParaObject(obj.type, obj.id)))
    /\ UNCHANGED <<accessKey, secretKey, tokenKey, tokenKeyExpires,
                   tokenKeyNextRefresh, attrs, now, lastOp, req, calls>>

UriNext == GetUri

UriSpec == UriInit /\ [][UriNext]_vars

\* ------------------------------------ calls on threads sharing the client
\* The client takes no lock.  A thread can be switched out between any two
\* statements and always is while it waits for the transport.  A call of
\* invokeGet("_me") is split where it reads or writes the token attributes:
\*   Enter    invokeSignedRequest up to the call of refreshToken (248-259),
\*            or to the request when there is no token (263-277)
\*   Decide   refreshToken up to the refresh request being sent (1151-1157)
\*   Answer   the answer to it read (1157-1158), then the first assignment
\*            (1160) or the first del (137)
\*   Store2, Store3   the assignments of lines 1161, 1162
\*   Del2, Del3       the del statements of lines 138, 139
\*   Attach   "Bearer " + self.__tokenKey and the request (260-277)
ConcResponses ==
    {NoResponse, JwtResp(200, "srvA", 3, 1), JwtResp(200, "srvB", 4, 3),
     Resp(401, "errjson")}

\* thread th moves on to c, leaving the client as self
ThreadStep(th, c, self) ==
    /\ calls' = [calls EXCEPT ![th] = c]
    /\ tokenKey' = self.tokenKey
    /\ tokenKeyExpires' = self.tokenKeyExpires
    /\ tokenKeyNextRefresh' = self.tokenKeyNextRefresh
    /\ attrs' = self.attrs
    /\ UNCHANGED <<accessKey, secretKey, now, lastOp, req, obj>>

Done(c, exc) == [c EXCEPT !.pc = "done", !.exc = exc]

\* a client to which the application gives a token before it starts threads
ConcInit ==
    /\ accessKey = "app"
    /\ secretKey = "secret"
    /\ tokenKey = NONE
    /\ tokenKeyExpires = NoneT
    /\ tokenKeyNextRefresh = NoneT
    /\ attrs = {}
    /\ now \in 0..MaxTime
    /\ lastOp = NoOp
    /\ req = NoRequest
    /\ obj = NoObject
    /\ calls = NoCalls

ConcSetToken ==
    /\ \A th \in Threads : calls[th].pc = "idle"
    /\ SetToken

Enter ==
    \E th \in Threads :
      /\ calls[th].pc = "idle"
      /\ ThreadStep(th,
                    IF BlankAccessKey(Self) THEN Done(calls[th], "none")
                    ELSE IF TruthyS(tokenKey)
                    THEN [calls[th] EXCEPT !.pc = "refreshToken"]
                    ELSE [Done(calls[th], "none") EXCEPT
                            !.scheme = IF IsAnonymous(Self) THEN "Anonymous"
                                       ELSE "AWS4-HMAC-SHA256",
                            !.cred = accessKey],
                    Self)

Decide ==
    \E th \in Threads :
      /\ calls[th].pc = "refreshToken"
      /\ ThreadStep(th,
                    IF CanRefreshRaises(Self, now)
                    THEN [Done(calls[th], "TypeError") EXCEPT !.seen = Seen(Self)]
                    ELSE IF TruthyS(tokenKey) /\ NotExpired(Self, now)
                            /\ CanRefresh(Self, now)
                    THEN [calls[th] EXCEPT !.pc = "jwtSent", !.seen = Seen(Self),
                                           !.refreshCred = tokenKey]
                    ELSE [calls[th] EXCEPT !.pc = "attach", !.seen = Seen(Self)],
                    Self)

\* what the thread does with the entity read from the refresh answer
AnswerStep(th, e, ok, d) ==
    IF e.exc # "none" THEN ThreadStep(th, Done(calls[th], e.exc), Self)
    ELSE IF ok = "True"
    THEN ThreadStep(th, [calls[th] EXCEPT !.pc = "store2", !.res = e.res],
                    SetAttr(Self, "tokenKey", e.res.access_token))
    ELSE IF ok = "False"
    THEN ThreadStep(th,
                    IF d.exc # "none" THEN Done([calls[th] EXCEPT !.res = e.res], d.exc)
                    ELSE [calls[th] EXCEPT !.pc = "del2", !.res = e.res],
                    d.self)
    ELSE ThreadStep(th, Done(calls[th], ok), Self)

Answer ==
    \E th \in Threads, res \in ConcResponses :
      /\ calls[th].pc = "jwtSent"
      /\ AnswerStep(th, GetEntity(res), HasUserAndJwt(GetEntity(res)),
                    DelAttr(Self, "tokenKey"))

Store2 ==
    \E th \in Threads :
      /\ calls[th].pc = "store2"
      /\ ThreadStep(th, [calls[th] EXCEPT !.pc = "store3"],
                    SetAttr(Self, "tokenKeyExpires", calls[th].res.expires))

Store3 ==
    \E th \in Threads :
      /\ calls[th].pc = "store3"
      /\ ThreadStep(th, [calls[th] EXCEPT !.pc = "attach", !.stored = TRUE],
                    SetAttr(Self, "tokenKeyNextRefresh", calls[th].res.refresh))

\* one del statement of clearAccessToken, after which the call is at pc
DelStep(th, d, pc) ==
    ThreadStep(th,
               IF d.exc # "none" THEN Done(calls[th], d.exc)
               ELSE [calls[th] EXCEPT !.pc = pc],
               d.self)

Del2 ==
    \E th \in Threads :
      /\ calls[th].pc = "del2"
      /\ DelStep(th, DelAttr(Self, "tokenKeyExpires"), "del3")

Del3 ==
    \E th \in Threads :
      /\ calls[th].pc = "del3"
      /\ DelStep(th, DelAttr(Self, "tokenKeyNextRefresh"), "attach")

Attach ==
    \E th \in Threads :
      /\ calls[th].pc = "attach"
      /\ ThreadStep(th,
                    IF tokenKey = NONE THEN Done(calls[th], "TypeError")
                    ELSE [Done(calls[th], "none") EXCEPT !.scheme = "Bearer",
                                                         !.cred = tokenKey],
                    Self)

ConcNext ==
    ConcSetToken \/ Enter \/ Decide \/ Answer \/ Store2 \/ Store3 \/ Del2 \/ Del3
      \/ Attach

ConcSpec == ConcInit /\ [][ConcNext]_vars

\* ----------------------------------------------------------------- claims
\* Shorthands over the last operation.
Pre == lastOp.pre
IsDispatch == lastOp.op = "invokeSignedRequest"
OpSends == Sends(lastOp.trace)
RefreshChecks == SelectSeq(lastOp.trace, LAMBDA e : e.ev = "refreshToken")
\* the requests refreshToken issued: GET on the JWT path, sent after a
\* refreshToken event and before any other request
RefreshCalls ==
    {i \in DOMAIN lastOp.trace :
       /\ i > 1
       /\ lastOp.trace[i - 1].ev = "refreshToken"
       /\ lastOp.trace[i].ev = "send"
       /\ lastOp.trace[i].method = "GET"
       /\ lastOp.trace[i].path = JWT_PATH}
TokenStateUnchanged ==
    /\ tokenKey = Pre.tokenKey
    /\ tokenKeyExpires = Pre.tokenKeyExpires
    /\ tokenKeyNextRefresh = Pre.tokenKeyNextRefresh
    /\ attrs = Pre.attrs
TokenStateCleared ==
    /\ tokenKey = NONE
    /\ tokenKeyExpires = NoneT
    /\ tokenKeyNextRefresh = NoneT
    /\ attrs = {}
\* the answer to a refresh call is a 2xx response carrying user and jwt
RefreshAnswerGood(res) == res.code \in 200..299 /\ res.kind = "jwt"
\* the request the caller asked for is the last one sent
OriginalSent ==
    /\ OpSends # <<>>
    /\ OpSends[Len(OpSends)].method = lastOp.method
    /\ OpSends[Len(OpSends)].path = lastOp.path
    /\ lastOp.trace[Len(lastOp.trace)].ev = "send"
    /\ lastOp.ret = OpSends[Len(OpSends)].res

\* C1: with an empty access key every invokeSignedRequest fails locally: it
\* returns None without raising, no request reaches the transport, refreshToken
\* is not entered, and the token state is as before -- whatever the secret key
\* and the token are.  No other operation sends a request either.
C1_BlankAccessKeyFailsLocally ==
    ~TruthyS(Pre.accessKey) =>
        /\ OpSends = <<>>
        /\ IsDispatch =>
              /\ lastOp.trace = <<>>
              /\ lastOp.exc = "none"
              /\ lastOp.val = "None"
              /\ TokenStateUnchanged

\* C1 witness: a dispatch with an empty access key, a secret key and a token
\* that is due for refresh
C1_Witness ==
    /\ IsDispatch
    /\ Pre.accessKey = ""
    /\ TruthyS(Pre.secretKey)
    /\ TruthyS(Pre.tokenKey)
    /\ NotExpired(Pre, now) /\ CanRefresh(Pre, now)
    /\ lastOp.val = "None"

\* C2: whenever a token is set at the time of a call (and the access key is
\* not empty), invokeSignedRequest sends the request with Authorization:
\* Bearer <the token held> and unsigned, a secret key notwithstanding.
C2_BearerWheneverTokenSet ==
    (IsDispatch /\ TruthyS(Pre.accessKey) /\ TruthyS(Pre.tokenKey)) =>
        /\ lastOp.exc = "none"
        /\ OriginalSent
        /\ OpSends[Len(OpSends)].scheme = "Bearer"
        /\ OpSends[Len(OpSends)].cred = tokenKey
        /\ \A i \in DOMAIN OpSends : ~OpSends[i].signed

\* C3: with an access key, no secret key and no token, invokeSignedRequest
\* sends exactly the request asked for, with Authorization: Anonymous
\* <accessKey>, and the signer is not invoked.
C3_AnonymousWithoutSecretAndToken ==
    (IsDispatch /\ TruthyS(Pre.accessKey) /\ ~TruthyS(Pre.secretKey)
       /\ ~TruthyS(Pre.tokenKey)) =>
        /\ lastOp.exc = "none"
        /\ Len(lastOp.trace) = 1
        /\ OriginalSent
        /\ OpSends[1].scheme = "Anonymous"
        /\ OpSends[1].cred = Pre.accessKey
        /\ ~OpSends[1].signed

\* C3 witness: an anonymous dispatch that got an answer
C3_Witness ==
    /\ IsDispatch
    /\ Pre.accessKey = "app" /\ Pre.secretKey = "" /\ Pre.tokenKey = ""
    /\ OpSends # <<>>
    /\ OpSends[1].scheme = "Anonymous"
    /\ lastOp.ret.code = 200

\* C4: a dispatch invokes the signer iff access key and secret key are
\* present and no token is set; no operation ever signs a request without a
\* secret key.
C4_SignedIffKeysAndNoToken ==
    /\ \A i \in DOMAIN OpSends :
          OpSends[i].signed =>
             TruthyS(Pre.secretKey) /\ TruthyS(Pre.accessKey) /\ ~TruthyS(Pre.tokenKey)
    /\ IsDispatch =>
          ((\E i \in DOMAIN OpSends : OpSends[i].signed)
             <=> (TruthyS(Pre.accessKey) /\ TruthyS(Pre.secretKey)
                    /\ ~TruthyS(Pre.tokenKey)))

\* C4 witness: a signed dispatch
C4_Witness ==
    /\ IsDispatch
    /\ OpSends # <<>>
    /\ OpSends[1].signed
    /\ Pre.secretKey = "secret"

\* C5: a dispatch (other than the refresh call itself) with a token whose
\* expiry is in the future and whose next-refresh time is in the past issues
\* exactly one refresh call, GET on the JWT path with the old token, before
\* anything else; when that refresh succeeds the request asked for is sent
\* next with the new token, which is then the token held.  A dispatch that
\* sends one request with a token held sends the held token.
C5_OneRefreshThenNewToken ==
    /\ (IsDispatch /\ TruthyS(Pre.accessKey) /\ TruthyS(Pre.tokenKey)
          /\ Pre.tokenKeyExpires > now
          /\ TruthyT(Pre.tokenKeyNextRefresh) /\ Pre.tokenKeyNextRefresh < now
          /\ ~(lastOp.method = "GET" /\ lastOp.path = JWT_PATH)) =>
          /\ Len(lastOp.trace) >= 2
          /\ RefreshCalls = {2}
          /\ lastOp.trace[2].scheme = "Bearer"
          /\ lastOp.trace[2].cred = Pre.tokenKey
          /\ (GetEntity(lastOp.trace[2].res).exc = "none"
                /\ HasUserAndJwt(GetEntity(lastOp.trace[2].res)) = "True") =>
                /\ lastOp.exc = "none"
                /\ Len(lastOp.trace) = 3
                /\ OriginalSent
                /\ lastOp.trace[3].scheme = "Bearer"
                /\ lastOp.trace[3].cred = lastOp.trace[2].res.access_token
                /\ tokenKey = lastOp.trace[2].res.access_token
                /\ tokenKeyExpires = lastOp.trace[2].res.expires
                /\ tokenKeyNextRefresh = lastOp.trace[2].res.refresh
    /\ (IsDispatch /\ TruthyS(Pre.accessKey) /\ TruthyS(Pre.tokenKey)
          /\ Len(OpSends) = 1 /\ lastOp.exc = "none") =>
          /\ OpSends[1].scheme = "Bearer"
          /\ OpSends[1].cred = Pre.tokenKey
          /\ tokenKey = Pre.tokenKey

\* C5 witness: a successful refresh inside a dispatch, the request sent with
\* the new token
C5_Witness ==
    /\ IsDispatch
    /\ Pre.tokenKey = "h.exp3r1.s"
    /\ now = 2
    /\ Len(OpSends) = 2
    /\ OpSends[2].cred = "srvA"
    /\ tokenKey = "srvA"

\* C6: no operation nests refresh attempts: refreshToken is entered at most
\* once, at most one refresh call and at most two requests are sent, and the
\* recursion never runs away.  A dispatch of GET on the JWT path enters no
\* refresh check; every other dispatch with a token held (POST and DELETE on
\* the JWT path too) enters refreshToken before it sends anything.
C6_RefreshCallDoesNotRefresh ==
    /\ lastOp.exc # "RecursionError"
    /\ Len(RefreshChecks) <= 1
    /\ Cardinality(RefreshCalls) <= 1
    /\ Len(OpSends) <= 2
    /\ Len(OpSends) = 2 => RefreshCalls # {}
    /\ (IsDispatch /\ lastOp.method = "GET" /\ lastOp.path = JWT_PATH) =>
          /\ RefreshChecks = <<>>
          /\ Len(OpSends) <= 1
    /\ (IsDispatch /\ TruthyS(Pre.accessKey) /\ TruthyS(Pre.tokenKey)
          /\ ~(lastOp.method = "GET" /\ lastOp.path = JWT_PATH)) =>
          /\ lastOp.trace # <<>>
          /\ lastOp.trace[1].ev = "refreshToken"

\* C6 witness: DELETE on the JWT path with a token held went through the
\* refresh check and a refresh call before it was sent
C6_Witness ==
    /\ IsDispatch
    /\ lastOp.method = "DELETE" /\ lastOp.path = JWT_PATH
    /\ Len(lastOp.trace) = 3
    /\ RefreshCalls = {2}
    /\ lastOp.trace[3].method = "DELETE"

\* C7: when a refresh call is answered by a non-2xx response, by no response,
\* or by a body without user and jwt, the token state is fully cleared
\* afterwards.
C7_FailedRefreshClearsTokenState ==
    \A i \in RefreshCalls :
       ~RefreshAnswerGood(lastOp.trace[i].res) => TokenStateCleared

\* C8: when the refresh triggered by a dispatch fails, the dispatch still
\* sends the request asked for and returns the transport's answer, without
\* raising.
C8_FailedRefreshIsNotFatal ==
    (IsDispatch /\ \E i \in RefreshCalls : ~RefreshAnswerGood(lastOp.trace[i].res)) =>
        /\ lastOp.exc = "none"
        /\ Len(OpSends) = 2
        /\ OriginalSent

\* a dispatch with a token held whose refresh check issued no refresh call
RefreshDeclined ==
    /\ IsDispatch
    /\ TruthyS(Pre.accessKey) /\ TruthyS(Pre.tokenKey)
    /\ RefreshChecks # <<>>
    /\ RefreshCalls = {}
\* a dispatch whose refresh call was not answered by a good response
RefreshFailed ==
    /\ IsDispatch
    /\ \E i \in RefreshCalls : ~RefreshAnswerGood(lastOp.trace[i].res)
StaleTokenSent ==
    /\ TokenStateUnchanged
    /\ lastOp.exc = "none"
    /\ OriginalSent
    /\ OpSends[Len(OpSends)].scheme = "Bearer"
    /\ OpSends[Len(OpSends)].cred = Pre.tokenKey
    /\ ~OpSends[Len(OpSends)].signed

Undecodable(token) ==
    /\ token \in DOMAIN TokenTable
    /\ \/ TokenTable[token].parts < 2
       \/ TokenTable[token].decode # "ok"
       \/ "exp" \notin TokenTable[token].keys

\* C10: setAccessToken on a token that cannot be decoded, or has no exp
\* claim, completes and leaves the raw token as the value with expiry and
\* next-refresh unset, whatever the token state was before.
C10_UndecodableTokenSetsRawValue ==
    (lastOp.op = "setAccessToken" /\ Undecodable(lastOp.arg)) =>
        /\ lastOp.exc = "none"
        /\ tokenKey = lastOp.arg
        /\ tokenKeyExpires = NoneT
        /\ tokenKeyNextRefresh = NoneT

\* a token that decodes to a payload with an exp claim and no refresh claim
ExpiresOnly(token) ==
    /\ token \in DOMAIN TokenTable
    /\ TokenTable[token].decode = "ok"
    /\ TokenTable[token].keys = {"exp"}

\* C11: setAccessToken on a token with an exp claim and no refresh claim sets
\* the value and the expiry and leaves next-refresh None; while that token is
\* held no operation issues a refresh call, before or after its expiry.
C11_NoRefreshClaimNeverRefreshes ==
    /\ (lastOp.op = "setAccessToken" /\ ExpiresOnly(lastOp.arg)) =>
          /\ lastOp.exc = "none"
          /\ tokenKey = lastOp.arg
          /\ tokenKeyExpires = TokenTable[lastOp.arg].exp
          /\ tokenKeyNextRefresh = NoneT
    /\ ExpiresOnly(Pre.tokenKey) =>
          /\ Pre.tokenKeyNextRefresh = NoneT
          /\ RefreshCalls = {}
          /\ \A i \in DOMAIN OpSends :
                ~(OpSends[i].method = "GET" /\ OpSends[i].path = JWT_PATH)
                  \/ (IsDispatch /\ lastOp.method = "GET" /\ lastOp.path = JWT_PATH)

\* C11 witness: a dispatch before the expiry of such a token went through the
\* refresh check and sent the request with the token, and nothing else
C11_Witness ==
    /\ IsDispatch
    /\ Pre.accessKey = "app"
    /\ Pre.tokenKey = "h.exp3.s"
    /\ Pre.tokenKeyExpires > now /\ now > 0
    /\ RefreshChecks # <<>>
    /\ Len(OpSends) = 1
    /\ OpSends[1].cred = "h.exp3.s"

\* the client holds no token: the three attributes read None and none of them
\* is on the instance
NoToken(self) ==
    /\ self.tokenKey = NONE
    /\ self.tokenKeyExpires = NoneT
    /\ self.tokenKeyNextRefresh = NoneT
    /\ self.attrs = {}

\* C12: after signOut or clearAccessToken the three token attributes are
\* unset and getAccessToken returns None; a dispatch made in that state (with
\* an access key) sends one request, without a Bearer header: signed when a
\* secret key is held, with Authorization: Anonymous otherwise.
C12_ClearedTokenFallsBack ==
    /\ lastOp.op \in {"signOut", "clearAccessToken"} =>
          /\ TokenStateCleared
          /\ GetAccessToken(Self) = NONE
    /\ (IsDispatch /\ NoToken(Pre) /\ TruthyS(Pre.accessKey)) =>
          /\ lastOp.exc = "none"
          /\ Len(lastOp.trace) = 1
          /\ OriginalSent
          /\ OpSends[1].scheme # "Bearer"
          /\ TruthyS(Pre.secretKey) => OpSends[1].signed
          /\ ~TruthyS(Pre.secretKey) =>
                (~OpSends[1].signed /\ OpSends[1].scheme = "Anonymous")

\* C12 witness: signOut with a token, an expiry and a next-refresh time held
C12_Witness ==
    /\ lastOp.op = "signOut"
    /\ lastOp.exc = "none"
    /\ Pre.tokenKey = "srvA"
    /\ Pre.attrs = TokenAttrs
    /\ TokenStateCleared

\* a signIn with provider and token given whose POST was sent, and its answer
SignInSent ==
    /\ lastOp.op = "signIn"
    /\ lastOp.arg \in {"google", "google:remember"}
    /\ lastOp.trace # <<>>
    /\ lastOp.trace[Len(lastOp.trace)].ev = "send"
    /\ lastOp.trace[Len(lastOp.trace)].method = "POST"
SignInAnswer == lastOp.trace[Len(lastOp.trace)].res

\* C13: a signIn whose answer carries user and jwt returns the user and, with
\* rememberjwt, leaves exactly the returned access_token, expires and refresh
\* as token state; a signIn answered otherwise (or not at all) returns None
\* without raising and leaves the token state cleared, whatever it was.
C13_SignInStoresOrClears ==
    SignInSent =>
       /\ RefreshAnswerGood(SignInAnswer) =>
             /\ lastOp.exc = "none"
             /\ lastOp.val = "user"
             /\ lastOp.arg = "google:remember" =>
                   /\ tokenKey = SignInAnswer.access_token
                   /\ tokenKeyExpires = SignInAnswer.expires
                   /\ tokenKeyNextRefresh = SignInAnswer.refresh
       /\ ~RefreshAnswerGood(SignInAnswer) =>
             /\ lastOp.exc = "none"
             /\ lastOp.val = "None"
             /\ TokenStateCleared

\* a dispatch whose own request (not the refresh call before it) was the last
\* one sent and got no response
TransportFailed ==
    /\ IsDispatch
    /\ lastOp.trace # <<>>
    /\ lastOp.trace[Len(lastOp.trace)].ev = "send"
    /\ lastOp.trace[Len(lastOp.trace)].res = NoResponse
    /\ Len(lastOp.trace) \notin RefreshCalls

\* C17: when the transport fails on the request of a dispatch, the dispatch
\* returns None without raising, having sent that request once; the keys are
\* as before, and the token state is as before (as the refresh before the
\* request stored it, if there was one).  No operation sends anything after a
\* request that got no response.
C17_TransportFailureIsNoResponse ==
    /\ \A i \in DOMAIN OpSends : OpSends[i].res = NoResponse => i = Len(OpSends)
    /\ TransportFailed =>
          /\ lastOp.exc = "none"
          /\ lastOp.val = "None"
          /\ lastOp.ret = NoResponse
          /\ OriginalSent
          /\ Cardinality({i \in DOMAIN OpSends :
                            /\ OpSends[i].method = lastOp.method
                            /\ OpSends[i].path = lastOp.path}) = 1
          /\ accessKey = Pre.accessKey
          /\ secretKey = Pre.secretKey
          /\ RefreshCalls = {} => TokenStateUnchanged
          /\ \A i \in RefreshCalls :
                /\ tokenKey = lastOp.trace[i].res.access_token
                /\ tokenKeyExpires = lastOp.trace[i].res.expires
                /\ tokenKeyNextRefresh = lastOp.trace[i].res.refresh

\* C17 witness: the refresh before the request succeeded, the request itself
\* got no response
C17_Witness ==
    /\ TransportFailed
    /\ Pre.tokenKey = "h.exp3r1.s"
    /\ Len(OpSends) = 2
    /\ OpSends[2].method = "DELETE"
    /\ tokenKey = "srvA"
    /\ lastOp.val = "None"

\* the answer to the POST of newKeys, NoResponse when it was not sent
NewKeysAnswer ==
    IF lastOp.op = "newKeys" /\ lastOp.trace # <<>>
         /\ lastOp.trace[Len(lastOp.trace)].ev = "send"
         /\ lastOp.trace[Len(lastOp.trace)].method = "POST"
    THEN lastOp.trace[Len(lastOp.trace)].res
    ELSE NoResponse
\* a 2xx answer with a non-empty secretKey
CarriesSecretKey(res) ==
    res.code \in 200..299 /\ res.kind = "keys" /\ TruthyS(res.secretKey)

\* C18: no operation changes the access key; the secret key changes only in
\* newKeys, and there exactly when the answer carries a secret key, which
\* then is the secret key held.
C18_OnlyNewKeysChangesSecretKey ==
    /\ accessKey = Pre.accessKey
    /\ secretKey # Pre.secretKey => lastOp.op = "newKeys"
    /\ lastOp.op = "newKeys" =>
          IF CarriesSecretKey(NewKeysAnswer)
          THEN secretKey = NewKeysAnswer.secretKey /\ lastOp.exc = "none"
          ELSE secretKey = Pre.secretKey

\* C18 witness: newKeys replaced the secret key of a signing client
C18_Witness ==
    /\ lastOp.op = "newKeys"
    /\ Pre.secretKey = "secret"
    /\ OpSends # <<>>
    /\ OpSends[1].signed
    /\ secretKey = "secret2"

\* C19: read with id None or "" returns None, createAll, readAll and
\* updateAll with None or [] and list with type None or "" return []: without
\* raising, without sending a request or entering refreshToken, and leaving
\* the client as it was -- whatever keys and token it holds.
C19_MissingKeyArgumentReturnsLocally ==
    /\ (lastOp.op = "read" /\ lastOp.arg \in {NONE, ""}) =>
          /\ lastOp.exc = "none" /\ lastOp.val = "None"
          /\ lastOp.trace = <<>> /\ Self = Pre
    /\ (lastOp.op \in {"createAll", "readAll", "updateAll"}
          /\ lastOp.arg \in {NONE, "[]"}) =>
          /\ lastOp.exc = "none" /\ lastOp.val = "[]"
          /\ lastOp.trace = <<>> /\ Self = Pre
    /\ (lastOp.op = "list" /\ lastOp.arg \in {NONE, ""}) =>
          /\ lastOp.exc = "none" /\ lastOp.val = "[]"
          /\ lastOp.trace = <<>> /\ Self = Pre

\* C19 witness: read("") on a client whose token is due for refresh
C19_Witness ==
    /\ lastOp.op = "read"
    /\ lastOp.arg = ""
    /\ lastOp.val = "None"
    /\ Pre.accessKey = "app"
    /\ TruthyS(Pre.tokenKey)
    /\ NotExpired(Pre, now) /\ CanRefresh(Pre, now)

\* Shorthands over the request AWSAuth was called on: the non-empty params of
\* the query it was prepared with, and the key and the value of a key=value
AuthDone == req.pc = "signed"
PreparedParams ==
    SelectSeq(Split(UrlQuery(req.prepared), "&"), LAMBDA param : param # <<>>)
AllPairs == \A i \in DOMAIN PreparedParams : IndexOf(PreparedParams[i], "=") > 0
KeyOf(param) == SubSeq(param, 1, IndexOf(param, "=") - 1)
ValueOf(param) == SubSeq(param, IndexOf(param, "=") + 1, Len(param))
\* the params whose key is not empty and occurs in no param before
FirstIdx ==
    {i \in DOMAIN PreparedParams :
       /\ KeyOf(PreparedParams[i]) # <<>>
       /\ \A j \in 1..(i - 1) : KeyOf(PreparedParams[j]) # KeyOf(PreparedParams[i])}
NthFirst(n) == CHOOSE i \in FirstIdx : Cardinality({j \in FirstIdx : j <= i}) = n
\* a key that is not empty occurs twice
KeyCollides ==
    \E i, j \in DOMAIN PreparedParams :
       /\ i < j
       /\ KeyOf(PreparedParams[i]) # <<>>
       /\ KeyOf(PreparedParams[i]) = KeyOf(PreparedParams[j])
\* key=value of the first occurrences, in their order, the values re-encoded
ExpectedPairs ==
    [n \in 1..Cardinality(FirstIdx) |->
       KeyOf(PreparedParams[NthFirst(n)]) \o <<"=">>
         \o QuoteValue(ValueOf(PreparedParams[NthFirst(n)]))]
CanonicalPairs ==
    SelectSeq(Split(req.querystring, "&"), LAMBDA param : param # <<>>)
OnlyUnreserved(s) == \A i \in 1..Len(s) : s[i] \in Unreserved

\* C14: on a query string of key=value params AWSAuth raises nothing, and
\* the canonical string is made of the first occurrence of each key, once and
\* in the original order, with its value re-encoded (its value as it is when
\* it has unreserved characters only); the value of a later occurrence of a
\* key is in no pair of that key.
C14_FirstOccurrenceWins ==
    (AuthDone /\ AllPairs) =>
       /\ req.exc = "none"
       /\ req.multi_valued_params = KeyCollides
       /\ req.querystring = Join(ExpectedPairs, <<"&">>)
       /\ Len(CanonicalPairs) = Cardinality(FirstIdx)
       /\ \A i \in FirstIdx :
             /\ Cardinality({n \in DOMAIN CanonicalPairs :
                               KeyOf(CanonicalPairs[n]) = KeyOf(PreparedParams[i])}) = 1
             /\ OnlyUnreserved(ValueOf(PreparedParams[i])) =>
                   \E n \in DOMAIN CanonicalPairs : CanonicalPairs[n] = PreparedParams[i]
       /\ \A j \in DOMAIN PreparedParams \ FirstIdx :
             \A i \in FirstIdx :
                (/\ KeyOf(PreparedParams[i]) = KeyOf(PreparedParams[j])
                 /\ ValueOf(PreparedParams[i]) # ValueOf(PreparedParams[j])) =>
                   \A n \in DOMAIN CanonicalPairs :
                      CanonicalPairs[n] # KeyOf(PreparedParams[j]) \o <<"=">>
                                            \o QuoteValue(ValueOf(PreparedParams[j]))

\* C14 witness: a=1&b=2&a=3 gave a=1&b=2
C14_Witness ==
    /\ AuthDone
    /\ UrlQuery(req.prepared)
         = <<"a", "=", "1", "&", "b", "=", "2", "&", "a", "=", "3">>
    /\ req.querystring = <<"a", "=", "1", "&", "b", "=", "2">>
    /\ req.exc = "none"

\* C15: on a query string of key=value params without a repeated key, the
\* canonical string of the canonical string is that same string.
C15_CanonicalIdempotent ==
    (AuthDone /\ AllPairs /\ ~KeyCollides) =>
       /\ req.exc = "none"
       /\ Canonical(<<"?">> \o req.querystring).exc = "none"
       /\ Canonical(<<"?">> \o req.querystring).querystring = req.querystring

\* C16 as claimed: when a key collides the signer is called on the URL with
\* the canonical string for query, and the URL of the request is the one it
\* was prepared with, each "+" rewritten to "%20".
C16_SignsCanonicalSendsRewritten ==
    (AuthDone /\ AllPairs /\ KeyCollides) =>
       /\ req.signedUrl = BaseUrl \o <<"?">> \o Join(ExpectedPairs, <<"&">>)
       /\ req.url = Replace(req.prepared, "+", <<"%", "2", "0">>)

\* C16 amended: when a key collides the signer is called on the URL with the
\* canonical string for query, and the URL of the request is exactly the one
\* it was prepared with, duplicates and "+" included.
C16_SignsCanonicalSendsOriginal ==
    (AuthDone /\ AllPairs /\ KeyCollides) =>
       /\ req.exc = "none"
       /\ req.signedUrl = BaseUrl \o <<"?">> \o Join(ExpectedPairs, <<"&">>)
       /\ req.url = req.prepared

\* C16 witness: a=+&b=2&a=3 is signed as a=%2B&b=2 and sent as it was
C16_Witness ==
    /\ AuthDone
    /\ UrlQuery(req.prepared)
         = <<"a", "=", "+", "&", "b", "=", "2", "&", "a", "=", "3">>
    /\ UrlQuery(req.signedUrl) = <<"a", "=", "%", "2", "B", "&", "b", "=", "2">>
    /\ req.url = req.prepared

\* the id of a ParaObject is None or ""
IdUnset == obj.id = NoneS \/ obj.id = <<>>

\* C20: getObjectURI of an object with a type returns "/" enc(type) when the
\* id is unset and "/" enc(type) "/" enc(id) when it is set, enc leaving the
\* unreserved characters and making %XX of every other one, %20 of a space;
\* the result has no "+" and no space.
C20_ObjectURI ==
    (obj.pc = "called" /\ obj.type # NoneS) =>
       /\ obj.exc = "none"
       /\ IdUnset => obj.uri = <<"/">> \o Quote(obj.type, {})
       /\ ~IdUnset =>
             obj.uri = <<"/">> \o Quote(obj.type, {}) \o <<"/">> \o Quote(obj.id, {})
       /\ \A i \in 1..Len(obj.uri) : obj.uri[i] \notin {"+", " "}

\* C20 witness: type " 2" and id "2 " give "/%202/2%20"
C20_Witness ==
    /\ obj.pc = "called"
    /\ obj.type = <<" ", "2">>
    /\ obj.id = <<"2", " ">>
    /\ obj.uri = <<"/", "%", "2", "0", "2", "/", "2", "%", "2", "0">>

\* refreshToken was entered with a token set, not expired, its next-refresh
\* time set and either reached or after the expiry
RefreshDueAsClaimed ==
    /\ TruthyS(Pre.tokenKey)
    /\ Pre.tokenKeyExpires # NoneT /\ now < Pre.tokenKeyExpires
    /\ Pre.tokenKeyNextRefresh # NoneT
    /\ \/ now >= Pre.tokenKeyNextRefresh
       \/ Pre.tokenKeyNextRefresh > Pre.tokenKeyExpires

\* C21: refreshToken, called by the application or inside a dispatch, issues
\* its refresh call iff a token is set, now < expiry, next-refresh is set and
\* (now >= next-refresh or next-refresh > expiry).
C21_RefreshIffDue ==
    (RefreshChecks # <<>> /\ TruthyS(Pre.accessKey)) =>
        (RefreshCalls # {} <=> RefreshDueAsClaimed)

\* C22: a dispatch with a token whose expiry is reached (now >= expiry) makes
\* no refresh call, leaves the token state as it is, and sends the request
\* asked for, once, unsigned, with Authorization: Bearer <the token held>.
C22_ExpiredTokenSentAsIs ==
    (IsDispatch /\ TruthyS(Pre.accessKey) /\ TruthyS(Pre.tokenKey)
       /\ Pre.tokenKeyExpires # NoneT /\ now >= Pre.tokenKeyExpires) =>
        /\ RefreshCalls = {}
        /\ TokenStateUnchanged
        /\ lastOp.exc = "none"
        /\ Len(OpSends) = 1
        /\ OriginalSent
        /\ OpSends[1].scheme = "Bearer"
        /\ OpSends[1].cred = Pre.tokenKey
        /\ ~OpSends[1].signed

\* C22 witness: the token a refresh stored, sent at its expiry although its
\* next-refresh time is long past
C22_Witness ==
    /\ IsDispatch
    /\ Pre.tokenKey = "srvA"
    /\ Pre.tokenKeyNextRefresh < now
    /\ now = Pre.tokenKeyExpires
    /\ RefreshChecks # <<>>
    /\ Len(OpSends) = 1
    /\ OpSends[1].cred = "srvA"

\* the client as it is, holding a token with no expiry and next-refresh nr
WithoutExpiry(nr) ==
    [Self EXCEPT !.tokenKey = IF TruthyS(tokenKey) THEN tokenKey ELSE "opaque",
                 !.tokenKeyExpires = NoneT,
                 !.tokenKeyNextRefresh = nr]

\* C23: no operation on a client whose token has no expiry issues a refresh
\* call; and refreshToken sends nothing for a token without expiry, whatever
\* the next-refresh value and the time.
C23_NoRefreshWithoutExpiry ==
    /\ Pre.tokenKeyExpires = NoneT => RefreshCalls = {}
    /\ \A nr \in {NoneT} \cup 0..(MaxTime + 1), t \in 0..MaxTime :
          NumSends(RefreshToken(WithoutExpiry(nr), <<>>, <<>>, t, 0).trace) = 0

\* C23 witness: a dispatch with a token that has no exp claim, before and
\* after which the expiry is unset
C23_Witness ==
    /\ IsDispatch
    /\ Pre.accessKey = "app"
    /\ Pre.tokenKey = "h.sub.s"
    /\ Pre.tokenKeyExpires = NoneT
    /\ RefreshChecks # <<>>
    /\ Len(OpSends) = 1
    /\ OpSends[1].scheme = "Bearer"

\* C24: once a refresh call has failed, the client is in a state from which
\* a dispatch issues no refresh call, now or at any later time (until a token
\* is installed).
C24_DeadRefreshNotRetried ==
    (\E i \in RefreshCalls : ~RefreshAnswerGood(lastOp.trace[i].res)) =>
        \A t \in now..MaxTime :
           NumSends(RefreshToken(Self, <<>>, <<>>, t, 0).trace) = 0

\* C29: clearAccessToken and signOut complete without raising and leave the
\* three token attributes unset, from every token state.
C29_ClearIsTotal ==
    lastOp.op \in {"signOut", "clearAccessToken"} =>
        /\ lastOp.exc = "none"
        /\ TokenStateCleared

\* C30: whenever no token value is set (None or empty), expiry and
\* next-refresh are unset too.
C30_NoExpiryWithoutToken ==
    ~TruthyS(tokenKey) => (tokenKeyExpires = NoneT /\ tokenKeyNextRefresh = NoneT)

\* C25: when a key collides, the signature headers the request carries were
\* computed over the URL whose query is the canonical string and nothing
\* else, which has every key once, while the URL of the request is the one
\* it was prepared with, its duplicate params included.
C25_CollisionSignsCopy ==
    (AuthDone /\ AllPairs /\ KeyCollides) =>
       /\ req.exc = "none"
       /\ Split(req.signedUrl, "?")[1] = Split(req.prepared, "?")[1]
       /\ UrlQuery(req.signedUrl) = req.querystring
       /\ \A m, n \in DOMAIN CanonicalPairs :
             KeyOf(CanonicalPairs[m]) = KeyOf(CanonicalPairs[n]) => m = n
       /\ req.signedUrl # req.url
       /\ req.url = req.prepared
       /\ Split(UrlQuery(req.url), "&") = Split(UrlQuery(req.prepared), "&")

\* C25 witness: b=1&b=1&a=2 is signed as b=1&a=2 and keeps its three params
C25_Witness ==
    /\ AuthDone
    /\ UrlQuery(req.prepared)
         = <<"b", "=", "1", "&", "b", "=", "1", "&", "a", "=", "2">>
    /\ UrlQuery(req.signedUrl) = <<"b", "=", "1", "&", "a", "=", "2">>
    /\ Len(Split(UrlQuery(req.url), "&")) = 3

\* C26: when no key collides, the URL of the request is the URL the signer
\* was called on, character for character: the prepared URL with every "+"
\* rewritten to "%20".
C26_NoCollisionSendsSigned ==
    (AuthDone /\ AllPairs /\ ~KeyCollides) =>
       /\ req.exc = "none"
       /\ req.url = req.signedUrl
       /\ req.url = Replace(req.prepared, "+", <<"%", "2", "0">>)
       /\ \A i \in 1..Len(req.url) : req.url[i] # "+"

\* C26 witness: a=+&b=1 is signed and sent as a=%20&b=1
C26_Witness ==
    /\ AuthDone
    /\ UrlQuery(req.prepared) = <<"a", "=", "+", "&", "b", "=", "1">>
    /\ UrlQuery(req.url) = <<"a", "=", "%", "2", "0", "&", "b", "=", "1">>
    /\ req.signedUrl = req.url

\* the token attributes as one token leaves them: cleared, set by
\* setAccessToken, or set from one refresh answer
WholeTokens ==
    {[tokenKey |-> NONE, tokenKeyExpires |-> NoneT, tokenKeyNextRefresh |-> NoneT]}
    \cup {[tokenKey |-> t, tokenKeyExpires |-> TokenTable[t].exp,
           tokenKeyNextRefresh |-> TokenTable[t].refresh] : t \in DOMAIN TokenTable}
    \cup {[tokenKey |-> r.access_token, tokenKeyExpires |-> r.expires,
           tokenKeyNextRefresh |-> r.refresh] : r \in ConcResponses}
    \cup {[tokenKey |-> "", tokenKeyExpires |-> NoneT, tokenKeyNextRefresh |-> NoneT]}

\* C27: of two calls on threads sharing the client, at most one issues a
\* refresh call for a given token, and at most one assigns a refresh answer
\* obtained for it.
C27_OneRefreshPerToken ==
    \A a, b \in Threads :
       a # b =>
          /\ ~(calls[a].refreshCred # NONE
                /\ calls[a].refreshCred = calls[b].refreshCred)
          /\ ~(calls[a].stored /\ calls[b].stored
                /\ calls[a].refreshCred = calls[b].refreshCred)

\* C28: the token attributes a call reads in refreshToken are those of one
\* token: never the value of one with the expiry or next-refresh of another
\* or of the cleared state.
C28_NoHalfUpdatedTokenSeen ==
    \A th \in Threads :
       calls[th].seen # NoSeen => calls[th].seen \in WholeTokens

====
